---- MODULE Spec2Model ----
(***************************************************************************)
(* kaino_bot: a Telegram bot that forwards a film title to an AI           *)
(* chat-completions proxy and relays the answer (src/kaino_bot.py).        *)
(*                                                                         *)
(* Text is a sequence of units.  A unit is one character ("a", " ", "\n")  *)
(* or one fixed literal of the source, written in ASCII transliteration    *)
(* because the module is ASCII only ("Oshibka: " is the source's Russian   *)
(* word for "Error: ").  Concatenation, strip, upper, join and search work *)
(* on units exactly as Python's str methods work on characters.            *)
(***************************************************************************)
EXTENDS Integers, Sequences, FiniteSets, TLC

(***************************************************************************)
(* Bounds of the model.                                                    *)
(***************************************************************************)
\* longest run of whitespace put before / after an upstream content
MaxPad == 1
\* number of handler invocations of the concurrent specification
NumInv == 2

\* F(e), with e evaluated once however often F reads its argument
Let(e, F(_)) == CHOOSE y \in { F(x) : x \in {e} } : TRUE

(***************************************************************************)
(* Python str helpers.                                                     *)
(***************************************************************************)
\* str.isspace of one character
IsSpace(c) == c \in {" ", "\n", "\t"}

RECURSIVE LStrip(_)
\* str.lstrip()
LStrip(s) == IF s # <<>> /\ IsSpace(Head(s)) THEN LStrip(Tail(s)) ELSE s

RECURSIVE RStrip(_)
\* str.rstrip()
RStrip(s) ==
  IF s # <<>> /\ IsSpace(s[Len(s)]) THEN RStrip(SubSeq(s, 1, Len(s) - 1)) ELSE s

\* str.strip()
Strip(s) == LStrip(RStrip(s))

RECURSIVE RStripSlash(_)
\* str.rstrip("/")
RStripSlash(s) ==
  IF s # <<>> /\ s[Len(s)] = "/" THEN RStripSlash(SubSeq(s, 1, Len(s) - 1)) ELSE s

\* str.upper() of one character (the letters the model's texts use)
UpperChar(c) ==
  CASE c = "n" -> "N" [] c = "o" -> "O" [] c = "t" -> "T" [] c = "f" -> "F"
    [] c = "u" -> "U" [] c = "d" -> "D" [] c = "a" -> "A" [] c = "b" -> "B"
    [] OTHER -> c

\* str.upper()
Upper(s) == [k \in 1..Len(s) |-> UpperChar(s[k])]

RECURSIVE Join(_, _)
\* sep.join(parts)
Join(sep, parts) ==
  IF parts = <<>> THEN <<>>
  ELSE IF Len(parts) = 1 THEN parts[1]
  ELSE parts[1] \o sep \o Join(sep, Tail(parts))

\* needle in hay (a contiguous run of units)
Contains(hay, needle) ==
  \E k \in 0..(Len(hay) - Len(needle)) :
    SubSeq(hay, k + 1, k + Len(needle)) = needle

\* hay.startswith(prefix)
StartsWith(hay, prefix) ==
  Len(prefix) <= Len(hay) /\ SubSeq(hay, 1, Len(prefix)) = prefix

\* the sentinel the prompt asks the AI to answer with
NOT_FOUND == <<"N", "O", "T", "_", "F", "O", "U", "N", "D">>

(***************************************************************************)
(* JSON.  A value is a tagged tuple: <<"null">>, <<"num", n>>,             *)
(* <<"str", text>>, <<"list", items>>, <<"obj", pairs>> with pairs a       *)
(* sequence of <<key text, value>>.  A body is text whose units are the JSON    *)
(* lexemes ("{", ":", "\"", "null", a digit) and the characters of         *)
(* strings; "\\n" is the escape of a newline inside a string.              *)
(***************************************************************************)
JNull == <<"null">>
JNum(n) == <<"num", n>>
JStr(t) == <<"str", t>>
JList(items) == <<"list", items>>
JObj(pairs) == <<"obj", pairs>>

Digits == <<"0", "1", "2", "3", "4", "5", "6", "7", "8", "9">>
\* the decimal digit d as a unit
Digit(d) == Digits[d + 1]
IsDigit(c) == \E d \in 0..9 : Digits[d + 1] = c
DigitValue(c) == CHOOSE d \in 0..9 : Digits[d + 1] = c

RECURSIVE JsonEscape(_)
\* the characters of a string as they are written inside a JSON string
JsonEscape(t) ==
  IF t = <<>> THEN <<>>
  ELSE (IF Head(t) = "\n" THEN <<"\\n">> ELSE <<Head(t)>>) \o JsonEscape(Tail(t))

RECURSIVE JsonDumps(_)
RECURSIVE JsonDumpsItems(_)
RECURSIVE JsonDumpsPairs(_)
\* the upstream's serialisation of a value (compact form)
JsonDumps(v) ==
  CASE v[1] = "null" -> <<"null">>
    [] v[1] = "num" -> <<Digit(v[2])>>
    [] v[1] = "str" -> <<"\"">> \o JsonEscape(v[2]) \o <<"\"">>
    [] v[1] = "list" -> <<"[">> \o JsonDumpsItems(v[2]) \o <<"]">>
    [] v[1] = "obj" -> <<"{">> \o JsonDumpsPairs(v[2]) \o <<"}">>
JsonDumpsItems(items) ==
  IF items = <<>> THEN <<>>
  ELSE JsonDumps(items[1])
       \o (IF Len(items) > 1 THEN <<",">> \o JsonDumpsItems(Tail(items)) ELSE <<>>)
JsonDumpsPairs(pairs) ==
  IF pairs = <<>> THEN <<>>
  ELSE <<"\"">> \o JsonEscape(pairs[1][1]) \o <<"\"", ":">> \o JsonDumps(pairs[1][2])
       \o (IF Len(pairs) > 1 THEN <<",">> \o JsonDumpsPairs(Tail(pairs)) ELSE <<>>)

\* a parse result: <<"ok", value, next position>> or <<"err">>
ParseErr == <<"err">>
ParseOk(v, p) == <<"ok", v, p>>

RECURSIVE SkipWs(_, _)
\* the first position at or after p that holds no JSON whitespace
SkipWs(b, p) == IF p <= Len(b) /\ IsSpace(b[p]) THEN SkipWs(b, p + 1) ELSE p

RECURSIVE ParseChars(_, _, _)
\* the characters of a JSON string from p up to its closing quote
ParseChars(b, p, acc) ==
  IF p > Len(b) THEN ParseErr
  ELSE IF b[p] = "\"" THEN ParseOk(JStr(acc), p + 1)
  ELSE IF b[p] = "\\n" THEN ParseChars(b, p + 1, Append(acc, "\n"))
  ELSE IF b[p] \in {"\n", "\t"} THEN ParseErr  \* a raw control character
  ELSE ParseChars(b, p + 1, Append(acc, b[p]))

RECURSIVE ParseValue(_, _)
RECURSIVE ParseItems(_, _, _)
RECURSIVE ParsePairs(_, _, _)
RECURSIVE ParseItemsAfter(_, _, _)
RECURSIVE ParsePairsAfter(_, _, _, _)
RECURSIVE ParsePairsValue(_, _, _)
\* one JSON value starting at or after position p of body b
ParseValue(b, p0) ==
  Let(SkipWs(b, p0), LAMBDA p :
    IF p > Len(b) THEN ParseErr
    ELSE IF b[p] = "null" THEN ParseOk(JNull, p + 1)
    ELSE IF IsDigit(b[p]) THEN ParseOk(JNum(DigitValue(b[p])), p + 1)
    ELSE IF b[p] = "\"" THEN ParseChars(b, p + 1, <<>>)
    ELSE IF b[p] = "[" THEN
      Let(SkipWs(b, p + 1), LAMBDA q :
        IF q <= Len(b) /\ b[q] = "]" THEN ParseOk(JList(<<>>), q + 1)
        ELSE ParseItems(b, p + 1, <<>>))
    ELSE IF b[p] = "{" THEN
      Let(SkipWs(b, p + 1), LAMBDA q :
        IF q <= Len(b) /\ b[q] = "}" THEN ParseOk(JObj(<<>>), q + 1)
        ELSE ParsePairs(b, p + 1, <<>>))
    ELSE ParseErr)
\* after a value r of a list: "]" ends the list, "," goes on to the next item
ParseItemsAfter(b, r, acc) ==
  Let(SkipWs(b, r[3]), LAMBDA q :
    IF q > Len(b) THEN ParseErr
    ELSE IF b[q] = "]" THEN ParseOk(JList(Append(acc, r[2])), q + 1)
    ELSE IF b[q] = "," THEN ParseItems(b, q + 1, Append(acc, r[2]))
    ELSE ParseErr)
\* the items of a list, p after "[" or ","
ParseItems(b, p, acc) ==
  Let(ParseValue(b, p), LAMBDA r :
    IF r[1] # "ok" THEN ParseErr ELSE ParseItemsAfter(b, r, acc))
\* after the value r of the member named key: "}" ends the object, "," goes on
ParsePairsAfter(b, key, r, acc) ==
  Let(SkipWs(b, r[3]), LAMBDA q :
    IF q > Len(b) THEN ParseErr
    ELSE IF b[q] = "}" THEN ParseOk(JObj(Append(acc, <<key, r[2]>>)), q + 1)
    ELSE IF b[q] = "," THEN ParsePairs(b, q + 1, Append(acc, <<key, r[2]>>))
    ELSE ParseErr)
\* after the name k of a member: ":" and the member's value
ParsePairsValue(b, k, acc) ==
  Let(SkipWs(b, k[3]), LAMBDA c :
    IF c > Len(b) \/ b[c] # ":" THEN ParseErr
    ELSE Let(ParseValue(b, c + 1), LAMBDA r :
           IF r[1] # "ok" THEN ParseErr ELSE ParsePairsAfter(b, k[2][2], r, acc)))
\* the members of an object, p after "{" or ","
ParsePairs(b, p0, acc) ==
  Let(SkipWs(b, p0), LAMBDA p :
    IF p > Len(b) \/ b[p] # "\"" THEN ParseErr
    ELSE Let(ParseChars(b, p + 1, <<>>), LAMBDA k :
           IF k[1] # "ok" THEN ParseErr ELSE ParsePairsValue(b, k, acc)))

\* Response.json(): <<"ok", document, end>> or <<"err">> (a JSONDecodeError)
ResponseJson(b) ==
  Let(ParseValue(b, 1), LAMBDA r :
    IF r[1] = "ok" /\ SkipWs(b, r[3]) = Len(b) + 1 THEN r ELSE ParseErr)

\* does Response.json() succeed on body b
JsonOk(b) == ResponseJson(b)[1] = "ok"
\* Response.json(): the parsed document
JsonLoads(b) == ResponseJson(b)[2]

(***************************************************************************)
(* The parsed document as the Python object Response.json() returns.       *)
(***************************************************************************)
\* type(v).__name__
PyType(v) ==
  CASE v[1] = "null" -> "NoneType" [] v[1] = "num" -> "int" [] v[1] = "str" -> "str"
    [] v[1] = "list" -> "list" [] v[1] = "obj" -> "dict"

\* not v
Falsy(v) ==
  \/ v[1] = "null"
  \/ v[1] = "num" /\ v[2] = 0
  \/ v[1] \in {"str", "list", "obj"} /\ v[2] = <<>>

RECURSIVE DictGet(_, _)
\* d.get(key) of a dict d (None when the key is missing; the last member wins)
DictGet(pairs, key) ==
  IF pairs = <<>> THEN JNull
  ELSE IF pairs[Len(pairs)][1] = key THEN pairs[Len(pairs)][2]
  ELSE DictGet(SubSeq(pairs, 1, Len(pairs) - 1), key)

RECURSIVE PyReprChars(_)
PyReprChars(t) ==
  IF t = <<>> THEN <<>>
  ELSE (IF Head(t) = "\n" THEN <<"\\n">> ELSE <<Head(t)>>) \o PyReprChars(Tail(t))

RECURSIVE PyRepr(_)
RECURSIVE PyReprItems(_)
RECURSIVE PyReprPairs(_)
\* repr(v)
PyRepr(v) ==
  CASE v[1] = "null" -> <<"None">>
    [] v[1] = "num" -> <<Digit(v[2])>>
    [] v[1] = "str" -> <<"'">> \o PyReprChars(v[2]) \o <<"'">>
    [] v[1] = "list" -> <<"[">> \o PyReprItems(v[2]) \o <<"]">>
    [] v[1] = "obj" -> <<"{">> \o PyReprPairs(v[2]) \o <<"}">>
PyReprItems(items) ==
  IF items = <<>> THEN <<>>
  ELSE PyRepr(items[1])
       \o (IF Len(items) > 1 THEN <<",", " ">> \o PyReprItems(Tail(items)) ELSE <<>>)
PyReprPairs(pairs) ==
  IF pairs = <<>> THEN <<>>
  ELSE PyRepr(JStr(pairs[1][1])) \o <<":", " ">> \o PyRepr(pairs[1][2])
       \o (IF Len(pairs) > 1 THEN <<",", " ">> \o PyReprPairs(Tail(pairs)) ELSE <<>>)

\* str(v), what an f-string puts for {v}
PyStr(v) == IF v[1] = "str" THEN v[2] ELSE PyRepr(v)

\* str(e) of the AttributeError raised by obj.attr on an object without attr
AttributeError(v, attr) ==
  <<"'", PyType(v), "' object has no attribute '", attr, "'">>

(***************************************************************************)
(* AICompletionsService.                                                   *)
(***************************************************************************)
\* the timeout of the POST, in seconds
timeout == 40

\* a missing value (None) is <<>>, a present value x is <<x>>
None == <<>>
Some(x) == <<x>>

\* AICompletionsService.__init__; api_key is None or Some(text) (the
\* requests.Session it opens has no state the handlers read)
AICompletionsService(base_url, api_key, model, language) ==
  [base_url |-> RStripSlash(base_url), api_key |-> api_key,
   model |-> model, language |-> language]

\* lines 41-45 (the f-string writes None for a missing key)
_headers(self) ==
  [Authorization |-> <<"Bearer ">>
     \o (IF self.api_key = None THEN <<"None">> ELSE self.api_key[1]),
   ContentType |-> <<"application/json">>]

\* the fixed format requirements of the prompt (one literal)
format_requirements == <<"Format otveta (na russkom): ... verni strogo stroku NOT_FOUND ...">>

\* a prompt that leaves the title out
PromptWithoutTitle(self, title) ==
  [model |-> self.model,
   messages |-> <<
     [role |-> "system", content |-> <<"Vy - pomoshchnik-kinoved. ... Yazyk otveta - ">>
        \o self.language \o <<". ... vernite strogo 'NOT_FOUND'.">>],
     [role |-> "user", content |-> <<"Nazvanie: ", "\n", "\n", "Nuzhno:", "\n", "\n">>
        \o format_requirements] >>,
   temperature |-> <<"0", ".", "2">>]

_build_prompt_for_rating(self, title) ==
  [model |-> self.model,
   messages |-> <<
     [role |-> "system", content |-> <<"Vy - pomoshchnik-kinoved. ... Yazyk otveta - ">>
        \o self.language \o <<". ... vernite strogo 'NOT_FOUND'.">>],
     [role |-> "user", content |-> <<"Nazvanie: ">> \o title
        \o <<"\n", "\n", "Nuzhno:", "\n", "\n">> \o format_requirements] >>,
   temperature |-> <<"0", ".", "2">>]

\* the request session.post sends (lines 83-86)
PostRequest(self, title) ==
  [url |-> self.base_url \o <<"/chat/completions">>,
   headers |-> _headers(self),
   json |-> _build_prompt_for_rating(self, title),
   timeout |-> timeout]

\* the two shapes of the client's result
Success(text) == [ok |-> TRUE, text |-> text]
Failure(error) == [ok |-> FALSE, error |-> error]
\* result.get(key): None when the key is missing
ResultGet(result, key) == IF key \in DOMAIN result THEN Some(result[key]) ELSE None

\* "Pustoi otvet ot II": empty response from the AI
EmptyAIResponse == <<"Pustoi otvet ot II">>

\* a status check that takes the server errors alone for errors
RaisesForServerErrorOnly(status) == 500 <= status /\ status < 600

\* Response.raise_for_status(): HTTPError for a 4xx or 5xx status
RaisesForStatus(status) == 400 <= status /\ status < 600

\* what the upstream does with one POST: <<"timeout">> (requests.Timeout after
\* `timeout` seconds), <<"connection">> (requests.ConnectionError), or
\* <<"http", status, body>>
IsHttp(outcome) == outcome[1] = "http"
\* str(e) of the transport exceptions
TransportError(outcome) ==
  IF outcome[1] = "timeout"
  THEN <<"Read timed out. (read timeout=", Digit(timeout \div 10), Digit(timeout % 10), ")">>
  ELSE <<"Connection aborted.">>
\* str(e) of the JSONDecodeError of Response.json()
JSONDecodeError == <<"Expecting value: line 1 column 1 (char 0)">>

\* a client that takes a blank content for a success
ExtractBlankOkContent(msg) ==
  IF msg[1] # "obj" THEN Failure(AttributeError(msg, "get"))
  ELSE Let(DictGet(msg[2], <<"content">>), LAMBDA c :
         Let(IF Falsy(c) THEN JStr(<<>>) ELSE c, LAMBDA content :
           IF content[1] # "str" THEN Failure(AttributeError(content, "strip"))
           ELSE Success(Strip(content[2]))))
ExtractBlankOkChoice(c0) ==
  IF c0[1] # "obj" THEN Failure(AttributeError(c0, "get"))
  ELSE Let(DictGet(c0[2], <<"message">>), LAMBDA m :
         ExtractBlankOkContent(IF Falsy(m) THEN JObj(<<>>) ELSE m))
ExtractBlankOk(data) ==
  IF data[1] # "obj" THEN Failure(AttributeError(data, "get"))
  ELSE Let(DictGet(data[2], <<"choices">>), LAMBDA choices :
         IF choices[1] = "list" /\ choices[2] # <<>>
         THEN ExtractBlankOkChoice(choices[2][1])
         ELSE Failure(EmptyAIResponse))

\* lines 89-95: the first choice's message content of the parsed document:
\* msg.get("content") or "", choices[0].get("message") or {}, data.get("choices")
ExtractContent(msg) ==
  IF msg[1] # "obj" THEN Failure(AttributeError(msg, "get"))
  ELSE Let(DictGet(msg[2], <<"content">>), LAMBDA c :
         Let(IF Falsy(c) THEN JStr(<<>>) ELSE c, LAMBDA content :
           IF content[1] # "str" THEN Failure(AttributeError(content, "strip"))
           ELSE Let(Strip(content[2]), LAMBDA text :
             IF text # <<>> THEN Success(text) ELSE Failure(EmptyAIResponse))))
ExtractChoice(c0) ==
  IF c0[1] # "obj" THEN Failure(AttributeError(c0, "get"))
  ELSE Let(DictGet(c0[2], <<"message">>), LAMBDA m :
         ExtractContent(IF Falsy(m) THEN JObj(<<>>) ELSE m))
Extract(data) ==
  IF data[1] # "obj" THEN Failure(AttributeError(data, "get"))
  ELSE Let(DictGet(data[2], <<"choices">>), LAMBDA choices :
         IF choices[1] = "list" /\ choices[2] # <<>>
         THEN ExtractChoice(choices[2][1])
         ELSE Failure(EmptyAIResponse))

\* lines 96-102: the HTTPError branch
HttpErrorResult(body) ==
  Let(ResponseJson(body), LAMBDA r :
    Failure(<<"HTTP error: ">> \o (IF r[1] = "ok" THEN PyStr(r[2]) ELSE body)))

\* lines 86-105: the result of fetch_movie_rating_text for the outcome of its POST
fetch_movie_rating_text(outcome) ==
  IF ~IsHttp(outcome) THEN Failure(TransportError(outcome))
  ELSE IF RaisesForStatus(outcome[2]) THEN HttpErrorResult(outcome[3])
  ELSE Let(ResponseJson(outcome[3]), LAMBDA r :
         IF r[1] # "ok" THEN Failure(JSONDecodeError) ELSE Extract(r[2]))

(***************************************************************************)
(* Configuration.                                                          *)
(***************************************************************************)
\* os.getenv(name, default)
GetEnv(environ, name, default) ==
  IF environ[name] = None THEN default ELSE environ[name][1]

\* not value, for a value that is None or a str
IsMissing(value) == value = None \/ value = Some(<<>>)

\* the names of the required settings
RequiredNames == <<"TELEGRAM_BOT_TOKEN", "PROXYAPI_KEY">>

\* lines 109-115: the cfg dict
require_config(environ) ==
  [TELEGRAM_BOT_TOKEN |-> environ["TELEGRAM_BOT_TOKEN"],
   PROXYAPI_KEY |-> environ["PROXYAPI_KEY"],
   AI_BASE_URL |-> GetEnv(environ, "AI_BASE_URL", <<"https://openai.api.proxyapi.ru/v1">>),
   AI_MODEL |-> GetEnv(environ, "AI_MODEL", <<"anthropic/claude-sonnet-4-20250514">>),
   AI_LANGUAGE |-> GetEnv(environ, "AI_LANGUAGE", <<"r", "u">>)]

\* line 116: the required names whose value is missing
MissingNames(c) ==
  SelectSeq(RequiredNames, LAMBDA k : IsMissing(c[k]))

LogLine(level, msg) == [level |-> level, msg |-> msg]

\* lines 117-121: what require_config logs
MissingLog(c) ==
  IF MissingNames(c) = <<>> THEN <<>>
  ELSE << LogLine("ERROR", <<"Missing required environment variables: ">>
            \o Join(<<",", " ">>, [k \in 1..Len(MissingNames(c)) |-> <<MissingNames(c)[k]>>])),
          LogLine("ERROR", <<"Set them, for example (Windows PowerShell):">>),
          LogLine("ERROR", <<"$env:", "TELEGRAM_BOT_TOKEN", "='YOUR_TOKEN_HERE'">>),
          LogLine("ERROR", <<"$env:", "PROXYAPI_KEY", "='YOUR_PROXYAPI_KEY_HERE'">>) >>

\* a start-up check that looks at the bot token alone
CannotStartTokenOnly(c) == IsMissing(c["TELEGRAM_BOT_TOKEN"])

\* line 183: main's own check of the two required settings
CannotStart(c) == IsMissing(c["TELEGRAM_BOT_TOKEN"]) \/ IsMissing(c["PROXYAPI_KEY"])

(***************************************************************************)
(* The texts of the handlers.                                              *)
(***************************************************************************)
\* lines 126-131: the usage message of /start and /help
UsageMessage ==
  <<"Ispolzuite komandu:", "\n", "/rate <nazvanie filma>", "\n", "\n",
    "Ya vernu reitingi IMDb i Kinopoiska, kratkoe opisanie i lakonichnyi verdikt.", "\n",
    "Esli film ne naiden - soobshchu ob etom i posovetuyu 'chto-nibud ochen plokhoe' (reiting < 3).">>

\* line 146: the reminder of /rate without a title
UsageReminder == <<"Ukazhite nazvanie filma: /rate Nazvanie filma">>

\* lines 156-162: (name, rating); a rating is held in tenths, 18 for 1.8
suggestions ==
  << <<"Birdemic: Shock and Terror", 18>>,
     <<"Disaster Movie", 20>>,
     <<"Superbabies: Baby Geniuses 2", 19>>,
     <<"Manos: The Hands of Fate", 16>>,
     <<"Troll 2", 29>> >>

\* str(rating) of a float with one decimal
FormatRating(tenths) == <<Digit(tenths \div 10), ".", Digit(tenths % 10)>>

\* lines 166-169: the not-found reply
NotFoundMessage(title, suggestion) ==
  <<"Film po zaprosu ", "\"">> \o title \o <<"\"", " ne naiden.", "\n",
    "Sovet: poprobuite chto-to dlya raznoobraziya - ", "\"", suggestion[1], "\"",
    " (reiting ">> \o FormatRating(suggestion[2]) \o <<"/10 < 3).">>

\* line 174: the error reply
ErrorPrefix == <<"Oshibka: ">>
ErrorMessage(err) == ErrorPrefix \o err

\* a handler that joins the tokens and does not trim
RateTitleNoStrip(args) == Join(<<" ">>, args)

\* line 142: the title of a /rate command
RateTitle(args) == Strip(Join(<<" ">>, args))

\* line 151: the text of the result
ResultText(result) ==
  Strip(IF ResultGet(result, "text") = None THEN <<>> ELSE result.text)

\* a handler that compares the text with the sentinel case-sensitively
IsDisplayableCaseSensitive(result) ==
  result.ok /\ ResultText(result) # <<>> /\ ResultText(result) # NOT_FOUND

\* line 152: the AI text is shown
IsDisplayable(result) ==
  result.ok /\ ResultText(result) # <<>> /\ Upper(ResultText(result)) # NOT_FOUND

\* line 154: the fallback suggestion is shown
IsNotFound(result) == ~IsDisplayable(result) /\ result.ok

\* line 173: result.get("error", "unknown")
ResultError(result) ==
  IF ResultGet(result, "error") = None THEN <<"unknown">> ELSE result.error

\* a handler that wraps the AI text in words of its own
RateReplyWrapped(title, result, pick) ==
  IF IsDisplayable(result)
  THEN [text |-> <<"Otvet: ">> \o ResultText(result),
        disable_web_page_preview |-> Some(FALSE)]
  ELSE IF IsNotFound(result)
  THEN [text |-> NotFoundMessage(title, suggestions[pick]),
        disable_web_page_preview |-> Some(FALSE)]
  ELSE [text |-> ErrorMessage(ResultError(result)), disable_web_page_preview |-> None]

\* lines 151-174: the send_message call of cmd_rate for a result; pick is the
\* index random.choice draws in the not-found branch, 0 in the others
RateReply(title, result, pick) ==
  IF IsDisplayable(result)
  THEN [text |-> ResultText(result), disable_web_page_preview |-> Some(FALSE)]
  ELSE IF IsNotFound(result)
  THEN [text |-> NotFoundMessage(title, suggestions[pick]),
        disable_web_page_preview |-> Some(FALSE)]
  ELSE [text |-> ErrorMessage(ResultError(result)), disable_web_page_preview |-> None]

(***************************************************************************)
(* The inputs of the model.                                                *)
(***************************************************************************)
\* process environments: each setting unset (None), or set to a text
AllEnvironments ==
  [TELEGRAM_BOT_TOKEN : {None, Some(<<>>), Some(<<"t", "k">>)},
   PROXYAPI_KEY : {None, Some(<<>>), Some(<<"k", "y">>)},
   AI_BASE_URL : {None, Some(<<"u", "/", "/">>)},
   AI_MODEL : {None, Some(<<"m">>)},
   AI_LANGUAGE : {None, Some(<<"e", "n">>)}]
\* the optional settings are all unset or all set
Environments ==
  { e \in AllEnvironments :
      (e["AI_BASE_URL"] = None) = (e["AI_MODEL"] = None)
      /\ (e["AI_MODEL"] = None) = (e["AI_LANGUAGE"] = None) }

\* the environments of the concurrent specification
ConcEnvironments ==
  { e \in Environments :
      e["TELEGRAM_BOT_TOKEN"] = Some(<<"t", "k">>) /\ e["PROXYAPI_KEY"] # Some(<<>>)
      /\ (e["AI_MODEL"] = None) = (e["PROXYAPI_KEY"] = None) }

\* context.args of a command: the tokens after the command
ArgLists ==
  { <<>>, << <<" ">> >>, << <<>>, <<>> >>, << <<"a">> >>, << <<"a">>, <<"b">> >>,
    << <<" ", "a">> >>, << NOT_FOUND >> }
ConcArgLists == { <<>>, << <<"a">> >>, << <<"b">> >> }

\* the chat an update comes from: one chat in the sequential specification,
\* a chat of its own for each update in the concurrent one
Chat == 101
ConcChat(i) == 100 + i

\* whitespace of k characters, newlines and spaces in turn, starting with first
Pad(k, first) ==
  [j \in 1..k |-> IF (j % 2 = 1) = (first = "\n") THEN "\n" ELSE " "]

\* message contents the upstream answers with, before padding
Cores ==
  { <<>>, <<"a">>, <<"a", " ", "b">>, NOT_FOUND,
    <<"n", "o", "t", "_", "f", "o", "u", "n", "d">>,
    <<"N", "o", "t", "_", "F", "o", "u", "n", "d">>,
    NOT_FOUND \o <<"a">> }
\* the contents, with at most MaxPad characters of whitespace on either side
Contents ==
  { Pad(l, "\n") \o c \o Pad(r, " ") : l \in 0..MaxPad, c \in Cores, r \in 0..MaxPad }

\* a chat-completions document with the given message content
Completion(content) ==
  JObj(<< << <<"choices">>,
             JList(<< JObj(<< << <<"message">>,
                                 JObj(<< << <<"content">>, content >> >>) >> >>) >>) >> >>)

\* documents of an unexpected shape, and error documents
OddDocuments ==
  { JNull, JStr(<<"a">>), JList(<<>>), JNum(5),
    JObj(<<>>),
    JObj(<< << <<"error">>, JStr(<<"a">>) >> >>),
    JObj(<< << <<"choices">>, JNull >> >>),
    JObj(<< << <<"choices">>, JList(<<>>) >> >>),
    JObj(<< << <<"choices">>, JStr(<<"a">>) >> >>),
    JObj(<< << <<"choices">>, JList(<<JNull>>) >> >>),
    JObj(<< << <<"choices">>, JList(<<JStr(<<"a">>)>>) >> >>),
    JObj(<< << <<"choices">>, JList(<<JObj(<<>>)>>) >> >>),
    JObj(<< << <<"choices">>, JList(<<JObj(<< << <<"message">>, JNull >> >>)>>) >> >>),
    JObj(<< << <<"choices">>, JList(<<JObj(<< << <<"message">>, JStr(<<"a">>) >> >>)>>) >> >>),
    JObj(<< << <<"choices">>, JList(<<JObj(<< << <<"message">>, JObj(<<>>) >> >>)>>) >> >>),
    Completion(JNull), Completion(JNum(0)), Completion(JNum(5)),
    Completion(JList(<<JStr(<<"a">>)>>)) }

\* bodies that are not JSON
RawBodies == { <<>>, <<" ">>, <<"<", "h", ">">>, <<"{", "\"">> }

Bodies ==
  { JsonDumps(d) : d \in OddDocuments }
    \cup { JsonDumps(Completion(JStr(c))) : c \in Contents }
    \cup RawBodies

\* the statuses of a response: a success, a 3xx that is no redirection requests
\* follows (300 Multiple Choices, which may carry a body), a client and a
\* server error
Statuses == {200, 300, 404, 500}

Outcomes ==
  { <<"timeout">>, <<"connection">> }
    \cup { <<"http", st, b>> : st \in Statuses, b \in Bodies }

ConcOutcomes ==
  { <<"timeout">>,
    <<"http", 200, JsonDumps(Completion(JStr(<<"a">>)))>>,
    <<"http", 200, JsonDumps(Completion(JStr(NOT_FOUND)))>>,
    <<"http", 404, JsonDumps(JObj(<< << <<"error">>, JStr(<<"a">>) >> >>))>> }

(***************************************************************************)
(* The state.                                                              *)
(***************************************************************************)
VARIABLES
  environ,     \* os.environ
  mainPc,      \* where main() is
  cfg,         \* main's cfg: None before require_config
  log,         \* the records logged so far
  ai_service,  \* main's ai_service: None before it is constructed
  bot_data,    \* application.bot_data
  handlers,    \* the (command, callback) pairs added to the application
  polling,     \* run_polling has been called
  inv,         \* the handler invocations
  loop,        \* the invocation blocking the event loop in session.post, or None
  posts,       \* the POST requests each invocation has issued
  sent         \* the send_message calls each invocation has made

vars == <<environ, mainPc, cfg, log, ai_service, bot_data, handlers, polling,
          inv, loop, posts, sent>>

mainVars == <<mainPc, cfg, log, ai_service, bot_data, handlers, polling>>
handlerVars == <<inv, loop, posts, sent>>

\* an invocation the framework has not started yet
Idle ==
  [pc |-> "idle", cmd |-> "", args |-> <<>>, chat |-> 0, title |-> <<>>,
   outcome |-> None, result |-> None, pick |-> 0]

InitWith(environments, n) ==
  /\ environ \in environments
  /\ mainPc = "start"
  /\ cfg = None
  /\ log = <<>>
  /\ ai_service = None
  /\ bot_data = [cfg |-> None, ai_service |-> None]
  /\ handlers = <<>>
  /\ polling = FALSE
  /\ inv = [i \in 1..n |-> Idle]
  /\ loop = None
  /\ posts = [i \in 1..n |-> <<>>]
  /\ sent = [i \in 1..n |-> <<>>]

Init == InitWith(Environments, 1)
ConcInit == InitWith(ConcEnvironments, NumInv)

(***************************************************************************)
(* main().                                                                 *)
(***************************************************************************)
\* line 182
MainRequireConfig ==
  /\ mainPc = "start"
  /\ cfg' = Some(require_config(environ))
  /\ log' = log \o MissingLog(require_config(environ))
  /\ mainPc' = "loaded"
  /\ UNCHANGED <<environ, ai_service, bot_data, handlers, polling, handlerVars>>

\* lines 183-185
MainAbort ==
  /\ mainPc = "loaded"
  /\ CannotStart(cfg[1])
  /\ log' = Append(log, LogLine("ERROR", <<"Cannot start without required configuration.">>))
  /\ mainPc' = "returned"
  /\ UNCHANGED <<environ, cfg, ai_service, bot_data, handlers, polling, handlerVars>>

\* lines 187-192
MainCreateService ==
  /\ mainPc = "loaded"
  /\ ~CannotStart(cfg[1])
  /\ ai_service' = Some(AICompletionsService(cfg[1]["AI_BASE_URL"], cfg[1]["PROXYAPI_KEY"],
                                             cfg[1]["AI_MODEL"], cfg[1]["AI_LANGUAGE"]))
  /\ mainPc' = "service"
  /\ UNCHANGED <<environ, cfg, log, bot_data, handlers, polling, handlerVars>>

\* lines 194-198
MainBuildApplication ==
  /\ mainPc = "service"
  /\ bot_data' = [cfg |-> cfg, ai_service |-> ai_service]
  /\ mainPc' = "application"
  /\ UNCHANGED <<environ, cfg, log, ai_service, handlers, polling, handlerVars>>

\* the handlers main adds, in the order of lines 201-203
CommandHandlers ==
  << <<"start", "cmd_start">>, <<"help", "cmd_help">>, <<"rate", "cmd_rate">> >>

\* lines 201-203: one add_handler call
MainAddHandler ==
  /\ mainPc = "application"
  /\ Len(handlers) < Len(CommandHandlers)
  /\ handlers' = Append(handlers, CommandHandlers[Len(handlers) + 1])
  /\ UNCHANGED <<environ, mainPc, cfg, log, ai_service, bot_data, polling, handlerVars>>

\* lines 205-208, and on_startup (line 178), which run_polling calls
MainRunPolling ==
  /\ mainPc = "application"
  /\ Len(handlers) = Len(CommandHandlers)
  /\ log' = log \o << LogLine("INFO", <<"Starting polling...">>),
                      LogLine("INFO", <<"Bot started.">>) >>
  /\ polling' = TRUE
  /\ mainPc' = "polling"
  /\ UNCHANGED <<environ, cfg, ai_service, bot_data, handlers, handlerVars>>

(***************************************************************************)
(* The command handlers.  The framework calls the callback added for the   *)
(* command of an update; a handler runs without interruption up to its     *)
(* await, and session.post blocks the event loop until it returns.         *)
(***************************************************************************)
\* the callback the application dispatches a command to
Dispatches(cmd, callback) ==
  /\ polling
  /\ loop = None
  /\ \E k \in 1..Len(handlers) : handlers[k] = <<cmd, callback>>

\* a send_message call
Message(chat_id, text, preview) ==
  [chat_id |-> chat_id, text |-> text, disable_web_page_preview |-> preview]

\* lines 125-132
cmd_start(i, args, chat) ==
  /\ Dispatches("start", "cmd_start")
  /\ inv[i].pc = "idle"
  /\ sent' = [sent EXCEPT ![i] = Append(@, Message(chat, UsageMessage, None))]
  /\ inv' = [inv EXCEPT ![i] = [@ EXCEPT !.pc = "awaiting_send", !.cmd = "start",
                                         !.args = args, !.chat = chat]]
  /\ UNCHANGED <<environ, mainVars, loop, posts>>

\* a /help that answers with the reminder of /rate
cmd_help_reminder(i, args, chat) ==
  /\ Dispatches("help", "cmd_help")
  /\ inv[i].pc = "idle"
  /\ sent' = [sent EXCEPT ![i] = Append(@, Message(chat, UsageReminder, None))]
  /\ inv' = [inv EXCEPT ![i] = [@ EXCEPT !.pc = "awaiting_send", !.cmd = "help",
                                         !.args = args, !.chat = chat]]
  /\ UNCHANGED <<environ, mainVars, loop, posts>>

\* lines 135-136
cmd_help(i, args, chat) ==
  /\ Dispatches("help", "cmd_help")
  /\ inv[i].pc = "idle"
  /\ sent' = [sent EXCEPT ![i] = Append(@, Message(chat, UsageMessage, None))]
  /\ inv' = [inv EXCEPT ![i] = [@ EXCEPT !.pc = "awaiting_send", !.cmd = "help",
                                         !.args = args, !.chat = chat]]
  /\ UNCHANGED <<environ, mainVars, loop, posts>>

\* lines 139-150: up to the usage reminder, or up to the POST of
\* fetch_movie_rating_text (lines 83-86)
cmd_rate(i, args, chat) ==
  /\ Dispatches("rate", "cmd_rate")
  /\ inv[i].pc = "idle"
  /\ LET title == RateTitle(args) IN
     IF title = <<>>
     THEN /\ sent' = [sent EXCEPT ![i] = Append(@, Message(chat, UsageReminder, None))]
          /\ inv' = [inv EXCEPT ![i] = [@ EXCEPT !.pc = "awaiting_send", !.cmd = "rate",
                                                 !.args = args, !.chat = chat,
                                                 !.title = title]]
          /\ UNCHANGED <<loop, posts>>
     ELSE /\ posts' = [posts EXCEPT ![i] =
                         Append(@, PostRequest(bot_data.ai_service[1], title))]
          /\ loop' = Some(i)
          /\ inv' = [inv EXCEPT ![i] = [@ EXCEPT !.pc = "awaiting_post", !.cmd = "rate",
                                                 !.args = args, !.chat = chat,
                                                 !.title = title]]
          /\ UNCHANGED sent
  /\ UNCHANGED <<environ, mainVars>>

\* line 86: session.post ends with the outcome of the POST; the handler
\* still holds the event loop
session_post_returns(i, outcome) ==
  /\ inv[i].pc = "awaiting_post"
  /\ loop = Some(i)
  /\ inv' = [inv EXCEPT ![i] = [@ EXCEPT !.pc = "post_returned",
                                         !.outcome = Some(outcome)]]
  /\ UNCHANGED <<environ, mainVars, loop, posts, sent>>

\* a handler that returns without a word when the client fails
cmd_rate_reply_silent(i) ==
  /\ inv[i].pc = "post_returned"
  /\ loop = Some(i)
  /\ \E result \in {fetch_movie_rating_text(inv[i].outcome[1])} :
     \E pick \in (IF IsNotFound(result) THEN 1..Len(suggestions) ELSE {0}) :
     \E reply \in {RateReply(inv[i].title, result, pick)} :
       /\ sent' = IF result.ok
                  THEN [sent EXCEPT ![i] =
                          Append(@, Message(inv[i].chat, reply.text,
                                            reply.disable_web_page_preview))]
                  ELSE sent
       /\ inv' = [inv EXCEPT ![i] = [@ EXCEPT !.pc = "awaiting_send",
                                              !.result = Some(result), !.pick = pick]]
  /\ loop' = None
  /\ UNCHANGED <<environ, mainVars, posts>>

\* a handler that keeps the title in a variable all invocations share
cmd_rate_reply_shared_title(i) ==
  /\ inv[i].pc = "post_returned"
  /\ loop = Some(i)
  /\ \E result \in {fetch_movie_rating_text(inv[i].outcome[1])} :
     \E pick \in (IF IsNotFound(result) THEN 1..Len(suggestions) ELSE {0}) :
     \E j \in { j \in DOMAIN inv : inv[j].title # <<>> /\
                  \A k \in DOMAIN inv : inv[k].title # <<>> => k <= j } :
     \E reply \in {RateReply(inv[j].title, result, pick)} :
       /\ sent' = [sent EXCEPT ![i] =
                     Append(@, Message(inv[i].chat, reply.text,
                                       reply.disable_web_page_preview))]
       /\ inv' = [inv EXCEPT ![i] = [@ EXCEPT !.pc = "awaiting_send",
                                              !.result = Some(result), !.pick = pick]]
  /\ loop' = None
  /\ UNCHANGED <<environ, mainVars, posts>>

\* lines 87-105 and 150-174: the client turns the outcome of the POST into a
\* result and the handler sends its reply
cmd_rate_reply(i) ==
  /\ inv[i].pc = "post_returned"
  /\ loop = Some(i)
  /\ \E result \in {fetch_movie_rating_text(inv[i].outcome[1])} :
     \E pick \in (IF IsNotFound(result) THEN 1..Len(suggestions) ELSE {0}) :
     \E reply \in {RateReply(inv[i].title, result, pick)} :
       /\ sent' = [sent EXCEPT ![i] =
                     Append(@, Message(inv[i].chat, reply.text,
                                       reply.disable_web_page_preview))]
       /\ inv' = [inv EXCEPT ![i] = [@ EXCEPT !.pc = "awaiting_send",
                                              !.result = Some(result), !.pick = pick]]
  /\ loop' = None
  /\ UNCHANGED <<environ, mainVars, posts>>

\* the awaited send_message returns and the handler with it
HandlerReturn(i) ==
  /\ inv[i].pc = "awaiting_send"
  /\ loop = None
  /\ inv' = [inv EXCEPT ![i].pc = "done"]
  /\ UNCHANGED <<environ, mainVars, loop, posts, sent>>

(***************************************************************************)
(* The specifications.                                                     *)
(***************************************************************************)
Main ==
  \/ MainRequireConfig
  \/ MainAbort
  \/ MainCreateService
  \/ MainBuildApplication
  \/ MainAddHandler
  \/ MainRunPolling

Next ==
  \/ Main
  \/ \E i \in DOMAIN inv, args \in ArgLists : cmd_start(i, args, Chat)
  \/ \E i \in DOMAIN inv, args \in ArgLists : cmd_help(i, args, Chat)
  \/ \E i \in DOMAIN inv, args \in ArgLists : cmd_rate(i, args, Chat)
  \/ \E i \in DOMAIN inv, outcome \in Outcomes : session_post_returns(i, outcome)
  \/ \E i \in DOMAIN inv : cmd_rate_reply(i)
  \/ \E i \in DOMAIN inv : HandlerReturn(i)

ConcNext ==
  \/ Main
  \/ \E i \in DOMAIN inv : cmd_start(i, << <<"a">> >>, ConcChat(i))
  \/ \E i \in DOMAIN inv : cmd_help(i, << <<"a">> >>, ConcChat(i))
  \/ \E i \in DOMAIN inv, args \in ConcArgLists : cmd_rate(i, args, ConcChat(i))
  \/ \E i \in DOMAIN inv, outcome \in ConcOutcomes : session_post_returns(i, outcome)
  \/ \E i \in DOMAIN inv : cmd_rate_reply(i)
  \/ \E i \in DOMAIN inv : HandlerReturn(i)

\* one update handled, every input of the model
Spec == Init /\ [][Next]_vars

\* the event loop runs a handler that can run, and a POST returns within
\* `timeout` seconds
Fairness ==
  /\ WF_vars(\E i \in DOMAIN inv, outcome \in Outcomes : session_post_returns(i, outcome))
  /\ WF_vars(\E i \in DOMAIN inv : cmd_rate_reply(i))
  /\ WF_vars(\E i \in DOMAIN inv : HandlerReturn(i))
FairSpec == Spec /\ Fairness

\* NumInv updates handled concurrently
ConcSpec == ConcInit /\ [][ConcNext]_vars

(***************************************************************************)
(* What the properties read off the state.                                 *)
(***************************************************************************)
\* /rate invocations that had a title, and so called the client
RateCalls == { i \in DOMAIN inv : inv[i].cmd = "rate" /\ inv[i].title # <<>> }
\* those whose POST has ended and whose reply has been sent
RateReplies == { i \in RateCalls : inv[i].result # None }
\* the outcome of the POST of invocation i, and the reply sent for it
OutcomeOf(i) == inv[i].outcome[1]
ReplyText(i) == sent[i][1].text

\* member key of a JSON object: None when v is no object or has no such member
Member(v, key) ==
  IF v[1] # "obj" \/ ~(\E k \in 1..Len(v[2]) : v[2][k][1] = key) THEN None
  ELSE Some(v[2][CHOOSE k \in 1..Len(v[2]) : v[2][k][1] = key][2])

\* the outcome is a response with a 2xx status / with a 4xx or 5xx status
IsSuccessResponse(outcome) == IsHttp(outcome) /\ outcome[2] \in 200..299
IsErrorResponse(outcome) == IsHttp(outcome) /\ outcome[2] \in 400..599

\* the outcome is a response whose body is a JSON document
HasDocument(outcome) == IsHttp(outcome) /\ JsonOk(outcome[3])

\* choices[0] of the upstream document, when choices is a non-empty array
UpstreamFirstChoice(outcome) ==
  IF ~HasDocument(outcome) THEN None
  ELSE LET choices == Member(JsonLoads(outcome[3]), <<"choices">>) IN
       IF choices = None THEN None
       ELSE IF choices[1][1] # "list" THEN None
       ELSE IF choices[1][2] = <<>> THEN None
       ELSE Some(choices[1][2][1])

\* choices[0].message of the upstream document, when it is an object
UpstreamMessage(outcome) ==
  LET c0 == UpstreamFirstChoice(outcome) IN
  IF c0 = None THEN None
  ELSE LET m == Member(c0[1], <<"message">>) IN
       IF m = None THEN None ELSE IF m[1][1] # "obj" THEN None ELSE m

\* choices[0].message.content of the upstream document, when it is a string
UpstreamContent(outcome) ==
  LET m == UpstreamMessage(outcome) IN
  IF m = None THEN None
  ELSE LET c == Member(m[1], <<"content">>) IN
       IF c = None THEN None ELSE IF c[1][1] # "str" THEN None ELSE Some(c[1][2])

\* a text without its leading and trailing whitespace
Trimmed(t) ==
  LET keep == { k \in 1..Len(t) : ~IsSpace(t[k]) } IN
  IF keep = {} THEN <<>>
  ELSE SubSeq(t, CHOOSE k \in keep : \A j \in keep : k <= j,
                 CHOOSE k \in keep : \A j \in keep : j <= k)

\* a text is the sentinel, whatever its case
IsSentinel(t) ==
  /\ Len(t) = Len(NOT_FOUND)
  /\ \A k \in 1..Len(t) :
       t[k] = NOT_FOUND[k] \/ <<t[k], NOT_FOUND[k]>> \in
         { <<"n", "N">>, <<"o", "O">>, <<"t", "T">>, <<"f", "F">>, <<"u", "U">>, <<"d", "D">> }

\* the reply proposes one of the fixed suggestions, with its rating, below 3.0
IsFallbackReply(i) ==
  \E k \in 1..Len(suggestions) :
    /\ ReplyText(i) = NotFoundMessage(inv[i].title, suggestions[k])
    /\ suggestions[k][2] < 30

IsErrorReply(i) == StartsWith(ReplyText(i), ErrorPrefix)

(***************************************************************************)
(* Properties.                                                             *)
(***************************************************************************)

\* C1: a /rate whose tokens, joined with single spaces and trimmed, give the
\* empty string sends the usage reminder and nothing else, and issues no POST.
C1_EmptyTitleSendsReminderWithoutPost ==
  \A i \in DOMAIN inv :
    (inv[i].cmd = "rate" /\ Trimmed(Join(<<" ">>, inv[i].args)) = <<>>)
      => /\ Len(sent[i]) = 1
         /\ ReplyText(i) = UsageReminder
         /\ posts[i] = <<>>
         /\ inv[i].outcome = None

\* a /rate of whitespace tokens has been answered
C1_Witness ==
  \E i \in DOMAIN inv :
    inv[i].cmd = "rate" /\ inv[i].args = << <<" ">> >> /\ inv[i].pc = "done"

\* C2 as claimed: on a success response whose content is non-empty and not
\* the sentinel, the reply is that content verbatim.
C2_ReplyIsContentVerbatim ==
  \A i \in RateReplies :
    LET c == UpstreamContent(OutcomeOf(i)) IN
    (/\ IsSuccessResponse(OutcomeOf(i))
     /\ c # None
     /\ c[1] # <<>>
     /\ ~IsSentinel(Trimmed(c[1])))
      => ReplyText(i) = c[1]

\* C2, amended: on a success response whose content, trimmed, is non-empty
\* and not the sentinel, the reply is the trimmed content and nothing more.
C2_ReplyIsTrimmedContent ==
  \A i \in RateReplies :
    LET c == UpstreamContent(OutcomeOf(i)) IN
    (/\ IsSuccessResponse(OutcomeOf(i))
     /\ c # None
     /\ Trimmed(c[1]) # <<>>
     /\ ~IsSentinel(Trimmed(c[1])))
      => /\ Len(sent[i]) = 1
         /\ ReplyText(i) = Trimmed(c[1])

\* a padded content has been relayed
C2_Witness ==
  \E i \in RateReplies :
    /\ IsSuccessResponse(OutcomeOf(i))
    /\ UpstreamContent(OutcomeOf(i)) = Some(<<"\n", "a", " ", "b", " ">>)
    /\ inv[i].pc = "done"

\* C3 as claimed: on a success response whose content is the sentinel
\* (whatever its case) or empty, the reply is the fallback suggestion, never
\* the AI text and never an error message.
C3_SentinelOrEmptyGivesFallback ==
  \A i \in RateReplies :
    LET c == UpstreamContent(OutcomeOf(i)) IN
    (/\ IsSuccessResponse(OutcomeOf(i))
     /\ c # None
     /\ (IsSentinel(c[1]) \/ c[1] = <<>>))
      => /\ IsFallbackReply(i)
         /\ ReplyText(i) # c[1]
         /\ ~IsErrorReply(i)

\* C3, amended: on a success response whose content, trimmed, is the sentinel
\* (whatever its case), the reply is the fallback suggestion, never the AI
\* text and never an error message; an empty or blank content is answered
\* with the error message of the empty AI response.
C3_SentinelGivesFallbackBlankGivesError ==
  \A i \in RateReplies :
    LET c == UpstreamContent(OutcomeOf(i)) IN
    (IsSuccessResponse(OutcomeOf(i)) /\ c # None)
      => /\ IsSentinel(Trimmed(c[1]))
              => /\ Len(sent[i]) = 1
                 /\ IsFallbackReply(i)
                 /\ ReplyText(i) # c[1]
                 /\ ReplyText(i) # Trimmed(c[1])
                 /\ ~IsErrorReply(i)
         /\ Trimmed(c[1]) = <<>>
              => /\ Len(sent[i]) = 1
                 /\ ReplyText(i) = ErrorPrefix \o EmptyAIResponse

\* the sentinel in lower case has been answered with the last suggestion
C3_Witness ==
  \E i \in RateReplies :
    /\ IsSuccessResponse(OutcomeOf(i))
    /\ UpstreamContent(OutcomeOf(i)) = Some(<<"n", "o", "t", "_", "f", "o", "u", "n", "d">>)
    /\ inv[i].pick = Len(suggestions)
    /\ inv[i].pc = "done"

\* C4: on a 4xx/5xx response the reply starts with the error prefix and holds
\* the upstream detail: the parsed document when the body is JSON, the raw
\* body otherwise; it is neither the AI text nor a fallback suggestion.
C4_HttpErrorReplyHoldsUpstreamDetail ==
  \A i \in RateReplies :
    IsErrorResponse(OutcomeOf(i))
      => LET body == OutcomeOf(i)[3]
             c == UpstreamContent(OutcomeOf(i))
         IN /\ Len(sent[i]) = 1
            /\ IsErrorReply(i)
            /\ JsonOk(body) => Contains(ReplyText(i), PyStr(JsonLoads(body)))
            /\ ~JsonOk(body) => Contains(ReplyText(i), body)
            /\ ~IsFallbackReply(i)
            /\ c # None => ReplyText(i) \notin {c[1], Trimmed(c[1])}

\* a 404 with a JSON error document has been answered
C4_Witness ==
  \E i \in RateReplies :
    /\ OutcomeOf(i) = <<"http", 404, JsonDumps(JObj(<< << <<"error">>, JStr(<<"a">>) >> >>))>>
    /\ ReplyText(i) = <<"Oshibka: ", "HTTP error: ", "{", "'", "error", "'", ":", " ", "'", "a", "'", "}">>
    /\ inv[i].pc = "done"

\* a required setting is unset or empty in the environment
ConfigMissing ==
  \E k \in {"TELEGRAM_BOT_TOKEN", "PROXYAPI_KEY"} :
    environ[k] = None \/ environ[k] = Some(<<>>)

\* the name of a setting is in a logged record
Logged(name) == \E k \in 1..Len(log) : Contains(log[k].msg, <<name>>)

\* C5: with a required setting missing, once the configuration is read both
\* names are logged and main goes no further: no client, no handler, no
\* polling, no request; with both present, polling starts with the three
\* handlers added.
C5_MissingConfigAbortsStartup ==
  /\ (ConfigMissing /\ mainPc # "start")
       => /\ Logged("TELEGRAM_BOT_TOKEN") /\ Logged("PROXYAPI_KEY")
          /\ mainPc \in {"loaded", "returned"}
          /\ ai_service = None
          /\ bot_data = [cfg |-> None, ai_service |-> None]
          /\ handlers = <<>>
          /\ ~polling
          /\ \A i \in DOMAIN inv : posts[i] = <<>> /\ sent[i] = <<>>
  /\ polling
       => /\ ~ConfigMissing
          /\ ai_service # None
          /\ \A c \in {"start", "help", "rate"} :
               \E k \in 1..Len(handlers) : handlers[k][1] = c

\* main has returned with the proxy key alone missing
C5_Witness ==
  /\ environ["TELEGRAM_BOT_TOKEN"] = Some(<<"t", "k">>)
  /\ environ["PROXYAPI_KEY"] = None
  /\ mainPc = "returned"

\* a text without its trailing slashes
WithoutTrailingSlashes(t) ==
  LET keep == { k \in 1..Len(t) : t[k] # "/" } IN
  IF keep = {} THEN <<>>
  ELSE SubSeq(t, 1, CHOOSE k \in keep : \A j \in keep : j <= k)

\* the URL of the chat-completions endpoint of the configured base URL
CompletionsUrl ==
  WithoutTrailingSlashes(IF environ["AI_BASE_URL"] = None
                         THEN <<"https://openai.api.proxyapi.ru/v1">>
                         ELSE environ["AI_BASE_URL"][1])
    \o <<"/chat/completions">>

\* C6: a call of the client with a non-empty title issues exactly one POST,
\* to {baseUrl}/chat/completions, whose second message holds the title; it
\* issues no second one whatever the outcome, also for a title asked before,
\* and its result is that of its own POST's outcome.
C6_ExactlyOnePostPerCall ==
  /\ \A i \in RateCalls :
       /\ Len(posts[i]) = 1
       /\ posts[i][1].url = CompletionsUrl
       /\ Len(posts[i][1].json.messages) = 2
       /\ Contains(posts[i][1].json.messages[2].content, inv[i].title)
  /\ \A i \in DOMAIN inv \ RateCalls : posts[i] = <<>>
  /\ \A i \in RateReplies : \A j \in RateReplies :
       OutcomeOf(i) = OutcomeOf(j) => inv[i].result = inv[j].result

\* two calls for the same title have ended, one in a timeout, one in a success
C6_Witness ==
  \E i \in RateReplies : \E j \in RateReplies :
    /\ i # j
    /\ inv[i].title = inv[j].title
    /\ inv[i].pc = "done" /\ inv[j].pc = "done"
    /\ OutcomeOf(i) = <<"timeout">>
    /\ inv[j].result[1].ok

\* the outcome is one the claim lists: a 4xx/5xx status, a POST that never
\* answers, a network failure, a body that is not JSON, a document without a
\* first choice whose message is an object
IsListedFailure(outcome) ==
  \/ ~IsHttp(outcome)
  \/ IsErrorResponse(outcome)
  \/ ~JsonOk(outcome[3])
  \/ UpstreamMessage(outcome) = None

\* C7 as claimed, its part on the failures: a non-2xx status, a timeout, a
\* network failure, malformed JSON or an unexpectedly shaped body is turned
\* into a Failure by the client and into an error message by the handler.
C7_EveryNon2xxIsAnErrorReply ==
  \A i \in RateReplies :
    (IsListedFailure(OutcomeOf(i)) \/ ~IsSuccessResponse(OutcomeOf(i)))
      => /\ ~inv[i].result[1].ok
         /\ IsErrorReply(i)

\* C7, amended: with the configuration loaded, every /rate invocation sends
\* exactly one message and then finishes; a 4xx/5xx status, a timeout, a
\* network failure, malformed JSON or an unexpectedly shaped body is turned
\* into a Failure by the client and into an error message by the handler.
C7_EveryRateInvocationRepliesOnce ==
  /\ [](\A i \in DOMAIN inv :
          inv[i].cmd = "rate"
            => /\ inv[i].pc \in {"awaiting_send", "done"} => Len(sent[i]) = 1
               /\ inv[i].pc \in {"awaiting_post", "post_returned"} => sent[i] = <<>>
               /\ i \in RateReplies /\ IsListedFailure(OutcomeOf(i))
                    => ~inv[i].result[1].ok /\ IsErrorReply(i))
  /\ \A i \in {1} :
       (inv[i].cmd = "rate") ~> (inv[i].pc = "done" /\ Len(sent[i]) = 1)

\* a /rate whose POST timed out has finished with its error message
C7_Witness ==
  \E i \in RateReplies :
    /\ OutcomeOf(i) = <<"timeout">>
    /\ inv[i].pc = "done"
    /\ IsErrorReply(i)

\* C8: /start and /help send the same fixed usage message, whatever their
\* arguments, and never call the client.
C8_StartAndHelpSendTheUsageMessage ==
  \A i \in DOMAIN inv :
    inv[i].cmd \in {"start", "help"}
      => /\ sent[i] = << Message(inv[i].chat, UsageMessage, None) >>
         /\ posts[i] = <<>>
         /\ inv[i].outcome = None
         /\ loop # Some(i)

\* a /help with arguments has been answered
C8_Witness ==
  \E i \in DOMAIN inv :
    inv[i].cmd = "help" /\ inv[i].args = << <<"a">>, <<"b">> >> /\ inv[i].pc = "done"

\* the document is an object that has no usable content: choices missing,
\* null or empty, or a first choice whose message is missing or null, or
\* whose message has a missing, null or blank content
HasNoUsableContent(outcome) ==
  /\ HasDocument(outcome)
  /\ JsonLoads(outcome[3])[1] = "obj"
  /\ LET choices == Member(JsonLoads(outcome[3]), <<"choices">>) IN
     \/ choices \in {None, Some(JNull), Some(JList(<<>>))}
     \/ /\ UpstreamFirstChoice(outcome) # None
        /\ UpstreamFirstChoice(outcome)[1][1] = "obj"
        /\ LET message == Member(UpstreamFirstChoice(outcome)[1], <<"message">>) IN
           \/ message \in {None, Some(JNull)}
           \/ /\ message[1][1] = "obj"
              /\ LET content == Member(message[1], <<"content">>) IN
                 \/ content \in {None, Some(JNull)}
                 \/ content[1][1] = "str" /\ Trimmed(content[1][2]) = <<>>

\* C9: the client returns Success only with non-blank text.  On a success
\* status a missing, null or blank content (or missing or empty choices)
\* gives Failure with the fixed message, a non-blank content gives Success
\* with the trimmed content; the fallback is sent only for the sentinel.
C9_SuccessOnlyWithNonBlankText ==
  \A i \in RateReplies :
    LET o == OutcomeOf(i)
        r == inv[i].result[1]
        c == UpstreamContent(o)
    IN /\ r.ok => /\ r.text # <<>>
                  /\ c # None
                  /\ r.text = Trimmed(c[1])
       /\ (IsSuccessResponse(o) /\ HasNoUsableContent(o))
            => r = Failure(EmptyAIResponse)
       /\ (IsSuccessResponse(o) /\ c # None /\ Trimmed(c[1]) # <<>>)
            => r = Success(Trimmed(c[1]))
       /\ (inv[i].pick # 0 \/ IsFallbackReply(i)) => r.ok /\ IsSentinel(r.text)

\* a success response with a null content has been answered
C9_Witness ==
  \E i \in RateReplies :
    /\ OutcomeOf(i) = <<"http", 200, JsonDumps(Completion(JNull))>>
    /\ inv[i].result = Some(Failure(EmptyAIResponse))
    /\ inv[i].pc = "done"

\* the reply an invocation owes to its own command, tokens, outcome and pick
OwnReply(i) ==
  IF inv[i].cmd \in {"start", "help"} THEN UsageMessage
  ELSE IF i \notin RateCalls THEN UsageReminder
  ELSE RateReply(Trimmed(Join(<<" ">>, inv[i].args)),
                 fetch_movie_rating_text(OutcomeOf(i)), inv[i].pick).text

\* C10: under any interleaving the reply of an invocation goes to its own
\* chat and is the one its own title, its own POST's outcome and its own
\* pick give; a reply once sent stays as it is; and once polling, no step
\* changes the environment, the configuration, the client or the handlers.
C10_InvocationsAreIndependent ==
  /\ [](\A i \in DOMAIN inv :
          /\ \A k \in 1..Len(sent[i]) : sent[i][k].chat_id = inv[i].chat
          /\ \A k \in 1..Len(posts[i]) :
               posts[i][k] = PostRequest(ai_service[1], Trimmed(Join(<<" ">>, inv[i].args)))
          /\ sent[i] # <<>> => Len(sent[i]) = 1 /\ ReplyText(i) = OwnReply(i))
  /\ [][/\ \A i \in DOMAIN inv : sent[i] # <<>> => sent'[i] = sent[i]
        /\ polling => UNCHANGED <<environ, cfg, ai_service, bot_data, handlers>>]_vars

\* two /rate invocations with different titles overlap: the second has
\* finished with a fallback suggestion while the first still awaits its send
C10_Witness ==
  /\ 1 \in RateReplies /\ 2 \in RateReplies
  /\ inv[1].title # inv[2].title
  /\ inv[1].chat # inv[2].chat
  /\ inv[1].pc = "awaiting_send"
  /\ inv[2].pc = "done" /\ inv[2].pick # 0

====
